---- MODULE Spec2Model ----
(***************************************************************************)
(* Model of the workspace versioning and isolated-execution engine of the  *)
(* ILEC MCP server: mcp/ilec_mcp_server.py (the cmd_* tool handlers and    *)
(* create_REnv), mcp/ilec_r_lib.py (ILECREnvironment, run_target,          *)
(* AgentRCommands.run_command) and common/audit.py (AuditLogEntry,         *)
(* AuditLogReader).                                                        *)
(*                                                                         *)
(* One storage area (the session's MCP_WORK_DIR) is modelled.  Workspace   *)
(* ids are uuid4 values in the code; here they are 1, 2, ... in the order  *)
(* in which ILECREnvironment.__init__ draws them.  Every handler runs in a *)
(* server worker (a slot); a command handler spawns one child process and  *)
(* blocks on its queue.  The steps of different workers and children       *)
(* interleave freely.                                                      *)
(***************************************************************************)
EXTENDS Integers, Sequences, FiniteSets, TLC

\* ------------------------------------------------------------------ bounds
\* Number of workspace ids the model draws (uuid4 values are unbounded).
MaxWs == 3
\* Number of workspace ids the backtracking scenario may draw (it draws four:
\* root, W1, W2, W3).
ScenarioWs == 4
\* Number of tool calls that are handled at the same time.
MaxInFlight == 2
\* Number of command calls the load scenario issues at the same time.
LoadCalls == 5
\* Size of the short chains of workspaces the reader is run on.
ReaderIds == 3
\* Number of sql_run log files the model writes.
MaxSqlLog == 1
\* Number of workspace ids drawn in the fork scenario.
ForkWs == 5
\* Number of workspace ids drawn in the seal scenario.
SealWs == 4
\* Number of workspace ids drawn in the artifact scenario.
ArtifactWs == 4

\* --------------------------------------------------------------- constants
NODE_TYPE_ROOT == 1
NODE_TYPE_CHILD == 2
MAX_DEPTH == 1000
\* cmd_rpart's limits
MaxXVars == 5
MaxTreeDepth == 4
\* env_vars.py, "Admin Settings"
MAX_SERVER_WORKERS == 4

\* the ids of all specifications: as many as the largest of them draws
MaxOf(S) == CHOOSE x \in S : \A y \in S : y <= x
Ids == 1..MaxOf({MaxWs, ScenarioWs, ForkWs, LoadCalls + 1})
\* workspace_id None / "" (ILECREnvironment.__init__ maps both to None)
NullId == 0
\* a well-formed id string that names no workspace directory
MissingId == MaxOf({MaxWs, ScenarioWs, ForkWs, LoadCalls + 1}) + 1
\* The handlers of tool calls that run at the same time (nothing in the
\* code limits their number; every specification takes as many as it needs).
Slots == 1..MaxOf({MaxInFlight, LoadCalls})
Workers == 1..MaxInFlight

CmdTools == {"cmd_create_dataset", "cmd_run_inference", "cmd_rpart", "cmd_glmnet"}
Tools == CmdTools \cup {"cmd_init", "cmd_finalize"}
\* The command tools the callers of the model issue: one handler with a check
\* before create_REnv, one with checks after it, one with none (cmd_glmnet's
\* handler has the shape of cmd_run_inference's).
IssuedTools == {"cmd_create_dataset", "cmd_rpart", "cmd_run_inference"}

VARIABLES
    nextId,     \* number of uuid4 ids drawn so far
    dirs,       \* workspace ids whose directory workspace_<id>/ exists
    ptr,        \* workspace_pointer.txt of each workspace
    audit,      \* tool_call.json of each workspace
    files,      \* the artifacts in each workspace directory
    ctime,      \* st_ctime_ns of each workspace directory, as its rank among
                \* the change times of the directories (1 = changed longest ago)
    birth,      \* the rank of each directory's creation (mkdir) time
    sqlLog,     \* sql_run/: NoSqlDir, or the query_*.json entries in order
    store,      \* the session store (table settings of settings.db) as the
                \* readers see it: the value of each key
    final,      \* final.json: NoFinal, or the record
    plots,      \* plots/: NoPlots, or the ids <id> with a plots/<id>.png and
                \* the image each of these files is a copy of
    pc,         \* per worker: the handler's position
    call,       \* per worker: the call being handled (tool, arguments, new id)
    cpc,        \* per worker: the child process's position
    res,        \* per worker: the child's local variable res
    q,          \* per worker: the multiprocessing Queue of the call
    resp,       \* the response a handler produced in the last step, with the
                \* tool it answers (NoResp after every other step)
    handed      \* workspace ids that a response has handed to the caller

vars == <<nextId, dirs, ptr, audit, files, ctime, birth, sqlLog, store, final,
          plots, pc, call, cpc, res, q, resp, handed>>

diskVars == <<dirs, ptr, audit, files, ctime, birth>>

\* ------------------------------------------------------------------ values
\* workspace_pointer.txt: "root", or "<parent>"->"<child>"
NoPtr == [root |-> FALSE, parent |-> NullId, child |-> NullId]
RootPtr == [root |-> TRUE, parent |-> NullId, child |-> NullId]

\* the result dictionaries: {"success": True, "result": ...} and
\* {"success": False, "message": ...}
NoRes == [success |-> FALSE, message |-> "none"]
Success == [success |-> TRUE, message |-> "result"]
Failure(msg) == [success |-> FALSE, message |-> msg]

\* the arguments of a tool call, reduced to what the handlers inspect
NoArgs == [sqlOk |-> TRUE, nx |-> 0, depth |-> 0]
ArgsOf(tool) ==
    CASE tool = "cmd_create_dataset" ->
            {[sqlOk |-> b, nx |-> 0, depth |-> 0] : b \in BOOLEAN}
      [] tool = "cmd_rpart" ->
            {[sqlOk |-> TRUE, nx |-> n, depth |-> d] :
                n \in {MaxXVars, MaxXVars + 1}, d \in {MaxTreeDepth, MaxTreeDepth + 1}}
      [] OTHER -> {NoArgs}

\* tool_call.json
NoAudit == [last |-> NullId, this |-> NullId, tool |-> "none", args |-> NoArgs,
            result |-> NoRes]

\* the large artifact (*.parquet / *.rds) of a workspace: absent, a file written
\* by workspace ref, or a symlink to the artifact in workspace ref's directory
NoLarge == [kind |-> "none", ref |-> NullId]
\* The other artifacts a command may leave in its working directory, by file
\* name (stem and extension): a text file, a *.json file of its own and a
\* second image.
SmallNames == {[stem |-> "model_summary", ext |-> "txt"],
               [stem |-> "model_params", ext |-> "json"],
               [stem |-> "diagnostics", ext |-> "png"]}
\* the image that the plotting commands write
ToolPng == [stem |-> "plot", ext |-> "png"]
NoFiles == [large |-> NoLarge, png |-> FALSE, small |-> {}]

NoSqlDir == [dir |-> FALSE, entries |-> <<>>]

\* The work directories: DEFAULT_AGENT_WORK_DIR / <agent name> of an agent
\* run, and the default of the session store, DEFAULT_AGENT_WORK_DIR /
\* Path("/test_agent/"), which pathlib makes the absolute path /test_agent.
Agents == {"agent_a", "agent_b"}
AgentWorkDir(a) == [base |-> "DEFAULT_AGENT_WORK_DIR", name |-> a]
DEFAULT_SESSION_SETTINGS ==
    [AGENT_NAME |-> "test_agent", MCP_WORK_DIR |-> [base |-> "/", name |-> "test_agent"]]
NoTree == [root |-> NullId, order |-> <<>>, edges |-> {}]
NoFinal == [exists |-> FALSE, workspace_id |-> NullId, sql_log |-> <<>>,
            final_model_log |-> <<>>, all_model_logs |-> NoTree,
            all_model_logs_by_time |-> <<>>]
NoPlots == [dir |-> FALSE, imgs |-> {}, file |-> <<>>]

\* A call in a handler: its tool, its workspace_id argument (parent), its
\* target_args, the id of the environment created for it, and (history)
\* whether final.json existed when the call was issued.
NoCall == [tool |-> "none", parent |-> NullId, args |-> NoArgs, ws |-> NullId,
           sealedAtIssue |-> FALSE]
\* A handler's response: an exception that leaves the handler ("raise"), or the
\* returned dictionary ("return", with its workspace_id, NullId when the
\* dictionary has none, and its result).
NoResp == [kind |-> "none", err |-> "none", workspace_id |-> NullId, result |-> NoRes,
           tool |-> "none"]
Raise(err) == [kind |-> "raise", err |-> err, workspace_id |-> NullId, result |-> NoRes]
Return(ws, r) == [kind |-> "return", err |-> "none", workspace_id |-> ws, result |-> r]

Init ==
    /\ nextId = 0
    /\ dirs = {}
    /\ ptr = [w \in Ids |-> NoPtr]
    /\ audit = [w \in Ids |-> NoAudit]
    /\ files = [w \in Ids |-> NoFiles]
    /\ ctime = [w \in Ids |-> 0]
    /\ birth = [w \in Ids |-> 0]
    /\ sqlLog = NoSqlDir
    /\ store = DEFAULT_SESSION_SETTINGS
    /\ final = NoFinal
    /\ plots = NoPlots
    /\ pc = [c \in Slots |-> "idle"]
    /\ call = [c \in Slots |-> NoCall]
    /\ cpc = [c \in Slots |-> "none"]
    /\ res = [c \in Slots |-> NoRes]
    /\ q = [c \in Slots |-> <<>>]
    /\ resp = NoResp
    /\ handed = {}

\* ------------------------------------------------- ILECREnvironment.__enter__
\* the edge written child first
PointerDescSwapped(last, this) ==
    IF last = NullId THEN RootPtr
    ELSE [root |-> FALSE, parent |-> this, child |-> last]
\* the edge form written for every workspace, the empty parent included
PointerDescNeverRoot(last, this) == [root |-> FALSE, parent |-> last, child |-> this]
\* pointer_desc: "root" if last_workspace_id is None, else the edge
PointerDesc(last, this) ==
    IF last = NullId THEN RootPtr
    ELSE [root |-> FALSE, parent |-> last, child |-> this]

\* The fork copy of __enter__ (lines 95-130), as the artifacts of the new
\* directory: every *.parquet / *.rds of the parent becomes a symlink to the
\* parent's path; *.json, *.png and workspace_pointer.txt are not propagated.
\* a fork that copies the bytes of the parent's artifact
\* an rsync pass without --exclude patterns
RsyncExcludesNothing(f) == FALSE
\* The rsync pass (lines 121-130): the files its --exclude patterns leave out.
RsyncExcluded(f) ==
    \/ f.ext \in {"parquet", "rds", "json", "png"}
    \/ (f.stem = "workspace_pointer" /\ f.ext = "txt")
ForkFilesCopy(last) ==
    [large |-> IF files[last].large.kind = "none" THEN NoLarge
               ELSE [kind |-> "file", ref |-> last],
     png |-> FALSE,
     small |-> {f \in files[last].small : ~RsyncExcluded(f)}]
ForkFiles(last) ==
    [large |-> IF files[last].large.kind = "none" THEN NoLarge
               ELSE [kind |-> "link", ref |-> last],
     png |-> FALSE,
     small |-> {f \in files[last].small : ~RsyncExcluded(f)}]

\* The directory that holds the bytes which the large artifact of directory
\* w resolves to under the artifacts f: w itself for a regular file, the
\* target's resolution for a symlink (os.symlink(f, link_path) names the
\* parent's path, which may be a symlink in turn), NullId for no artifact.
RECURSIVE ResolveIn(_, _)
ResolveIn(f, w) ==
    IF f[w].large.kind = "file" THEN w
    ELSE IF f[w].large.kind = "link" THEN ResolveIn(f, f[w].large.ref)
    ELSE NullId

\* A fork that moves the parent's large artifact instead of linking it
ForkMove(w, last) ==
    [files EXCEPT ![w] = [large |-> IF files[last].large.kind = "none" THEN NoLarge
                                    ELSE [kind |-> "file", ref |-> w],
                          png |-> FALSE,
                          small |-> {f \in files[last].small : ~RsyncExcluded(f)}],
                  ![last] = [@ EXCEPT !.large = NoLarge]]
\* The artifacts of all directories after the fork copy from `last` into the
\* new directory w.
Fork(w, last) == [files EXCEPT ![w] = ForkFiles(last)]

\* tool_call.json of all directories after the fork copy from `last` into the
\* new directory w: the parent's file is copied unless rsync leaves it out.
ForkAudit(w, last) ==
    IF RsyncExcluded([stem |-> "tool_call", ext |-> "json"]) THEN audit
    ELSE [audit EXCEPT ![w] = audit[last]]

\* mkdir(exist_ok=False) and the pointer file: the new directory with its
\* pointer record, at the next filesystem tick.
MakeDir(w, last) ==
    /\ dirs' = dirs \cup {w}
    /\ ptr' = [ptr EXCEPT ![w] = PointerDesc(last, w)]
    /\ ctime' = [ctime EXCEPT ![w] = Cardinality(dirs) + 1]
    /\ birth' = [birth EXCEPT ![w] = Cardinality(dirs) + 1]

\* An entry is created in (or removed from) directory w: its st_ctime becomes
\* the latest of all directories.
Touch(w) ==
    [x \in Ids |-> IF x = w THEN Cardinality(dirs)
                   ELSE IF ctime[x] > ctime[w] THEN ctime[x] - 1
                   ELSE ctime[x]]

\* Whether the fork of __enter__ finds the parent directory (line 98).
ParentFound(last) == last \in dirs

\* ------------------------------------------------------------ create_REnv
\* The storage area is the directory store.MCP_WORK_DIR, read at every call;
\* final.json, sql_run/, plots/ and the workspaces are those of this
\* directory.
FinalExists == final.exists

\* create_REnv(workspace_id, no_cmd): raises when final.json exists, else
\* constructs the environment, whose __init__ draws a fresh uuid4.
SealedMsg == "cmd_finalize() has already been called"
\* create_REnv without the test of final.json
CreateREnvNeverRaises(no_cmd) == FALSE
\* create_REnv with the test skipped for the no-op workspaces
CreateREnvRaisesForCommands(no_cmd) == ~no_cmd /\ FinalExists
CreateREnvRaises(no_cmd) == FinalExists

\* The ids a caller can name as workspace_id: ids a response has handed back,
\* None, or a string that names no workspace.
CallerIds == handed \cup {NullId, MissingId}
\* A command is issued against a workspace id (the callers start with
\* cmd_init, as prompt.py tells them): one handed back, or an unknown string.
CmdParents == handed \cup {MissingId}

\* ----------------------------------------------------------- tool handlers
\* cmd_create_dataset tests the sql against DUCKDB_SELECT_STMT before anything
\* else; the other handlers have no check before create_REnv.
PreCheckFails(tool, args) == tool = "cmd_create_dataset" /\ ~args.sqlOk

\* cmd_rpart's limits, tested after create_REnv and before run_command.
LimitsExceededDepthOnly(tool, args) ==
    tool = "cmd_rpart" /\ args.depth > MaxTreeDepth
LimitsExceeded(tool, args) ==
    tool = "cmd_rpart" /\ (args.nx > MaxXVars \/ args.depth > MaxTreeDepth)

LimitMessage(args) ==
    IF args.nx > MaxXVars THEN "more than 5 x_vars passed, maximum of 5"
    ELSE "max_depth > 4 passed, maximum of 4"

\* The target_args tuple the handler passes to run_command: cmd_rpart passes
\* min(max_depth, 4); the other handlers pass their arguments on.
TargetArgs(tool, args) ==
    IF tool = "cmd_rpart"
    THEN [args EXCEPT !.depth = IF args.depth < MaxTreeDepth THEN args.depth
                                 ELSE MaxTreeDepth]
    ELSE args

\* The handler of call cl on worker c ends with response r.
Finish(c, cl, r) ==
    /\ pc' = [pc EXCEPT ![c] = "idle"]
    /\ call' = [call EXCEPT ![c] = NoCall]
    /\ resp' = [kind |-> r.kind, err |-> r.err, workspace_id |-> r.workspace_id,
                result |-> r.result, tool |-> cl.tool]
    /\ handed' = IF r.kind = "return" /\ r.workspace_id # NullId
                 THEN handed \cup {r.workspace_id} ELSE handed

\* A worker takes a call when it is idle; the workers are interchangeable
\* and the lowest idle one takes it.
Free(c) == pc[c] = "idle" /\ \A d \in Slots : d < c => pc[d] # "idle"

\* ------------------------------------------------------ run_target (child)
\* AuditLogEntry._create_log_entry; AuditLogEntry.__init__ stores "" for a
\* last_workspace_id of None.
CreateLogEntry(last, this, tool, args, result) ==
    [last |-> last, this |-> this, tool |-> tool, args |-> args, result |-> result]

\* What the command bodies (R code run through rpy2) write into the working
\* directory: the dataset / model commands write a large artifact, cmd_rpart
\* ("does not cause side-effects", prompt.py) writes only its plot.
WritesLarge(tool) == tool \in {"cmd_create_dataset", "cmd_run_inference", "cmd_glmnet"}
WritesPng(tool) == tool \in {"cmd_rpart", "cmd_glmnet"}

\* The artifacts of directory w after the body of `tool` has run in it: the
\* body writes into its own working directory only; an artifact it writes
\* under a name that the fork linked replaces the link (linked artifacts are
\* read-only).
BodyFiles(w, tool) ==
    [large |-> IF WritesLarge(tool) THEN [kind |-> "file", ref |-> w]
               ELSE files[w].large,
     png |-> files[w].png \/ WritesPng(tool),
     small |-> files[w].small]

\* tool_call.json written into the directory the child was forked from
AuditDirParent(c) == call[c].parent
\* The directory that audit.log_tool_call writes tool_call.json into.
AuditDir(c) == call[c].ws

\* ---------------------------------------------------------- AuditLogReader
\* PTR_PATTERN: ^"([A-Za-z0-9-]+)"->"([A-Za-z0-9-]+)"$ ; the ids of the model
\* (uuid4 strings and MissingId) all match [A-Za-z0-9-]+, None / "" does not.
IdMatches(i) == i \in Nat \ {NullId}
\* a workspace_id string with a character outside [A-Za-z0-9-] (a blank, an
\* underscore, a dot); it names no workspace directory
MalformedId == -1
PtrMatch(p) == ~p.root /\ IdMatches(p.parent) /\ IdMatches(p.child)

\* whether workspace_<id>/workspace_pointer.txt can be opened
HasPointer(w) == w \in dirs

\* _get_node_type (the caller has checked HasPointer; open raises otherwise)
GetNodeType(w) == IF ptr[w] = RootPtr THEN NODE_TYPE_ROOT ELSE NODE_TYPE_CHILD

\* _get_node_log: tool_call.json, else a stand-in built from the pointer
\* record ("unknown", [], {}), else an exception.
NodeLogOk(w) ==
    \/ audit[w] # NoAudit
    \/ (HasPointer(w) /\ PtrMatch(ptr[w]))
GetNodeLog(w) ==
    IF audit[w] # NoAudit THEN audit[w]
    ELSE CreateLogEntry(ptr[w].parent, ptr[w].child, "unknown", NoArgs, NoRes)

BranchErr(msg) == [ok |-> FALSE, err |-> msg, chain |-> <<>>]

\* _traverse_branch.  The local variables of the walk: curr_workspace_id,
\* curr_node_type, traversal (the nested "next" structure read from the
\* outside in, so the first element of chain is the node visited last),
\* tot_depth, and the exception that ended it, if any.
WalkStart(leaf) ==
    [curr |-> leaf, type |-> 0, chain |-> <<>>, depth |-> 0, err |-> "none"]

\* the condition of the while loop (line 156)
LoopCond(s) == s.depth < MAX_DEPTH /\ s.type # NODE_TYPE_ROOT

\* one pass through the body of the while loop (lines 158-171)
LoopBody(s) ==
    IF ~HasPointer(s.curr) THEN [s EXCEPT !.err = "FileNotFoundError"]
    ELSE LET t == GetNodeType(s.curr)
             isChild == t = NODE_TYPE_CHILD
         IN IF isChild /\ ~NodeLogOk(s.curr)
            THEN [s EXCEPT !.err = "Invalid workspace_pointer.txt"]
            ELSE LET entry == IF isChild THEN GetNodeLog(s.curr) ELSE NoAudit
                     node == [workspace_id |-> s.curr, type |-> t, entry |-> entry]
                 IN [curr |-> IF isChild THEN entry.last ELSE s.curr,
                     type |-> t,
                     chain |-> <<node>> \o s.chain,
                     depth |-> s.depth + 1,
                     err |-> "none"]

\* The while loop, run for at most k passes from s: it is over when a pass
\* raised or the condition fails.  The k passes are taken as two halves one
\* after the other, which keeps the evaluation shallow for k = MAX_DEPTH.
RECURSIVE BranchLoop(_, _)
BranchLoop(s, k) ==
    IF s.err # "none" \/ ~LoopCond(s) THEN s
    ELSE IF k = 1 THEN LoopBody(s)
    ELSE LET half == BranchLoop(s, k \div 2)
         IN BranchLoop(half, k - (k \div 2))

\* a walk whose depth test lets the chain walked so far through
TraverseBranchPartial(leaf) ==
    LET s == BranchLoop(WalkStart(leaf), MAX_DEPTH)
    IN IF s.err # "none" THEN BranchErr(s.err)
       ELSE [ok |-> TRUE, err |-> "none", chain |-> s.chain]
\* _traverse_branch: the loop (it makes at most MAX_DEPTH passes, tot_depth
\* growing by one in each) and the depth test after it (lines 173-176).
TraverseBranch(leaf) ==
    LET s == BranchLoop(WalkStart(leaf), MAX_DEPTH)
    IN IF s.err # "none" THEN BranchErr(s.err)
       ELSE IF s.depth >= MAX_DEPTH
       THEN BranchErr("Max depth reached while scanning for root")
       ELSE [ok |-> TRUE, err |-> "none", chain |-> s.chain]

\* the pointer files found by work_dir.rglob("workspace_pointer.txt")
PointerFiles == dirs

\* adj_mat[parent] = [child] in place of the append: the child scanned last
AdjMatLast(parent) ==
    LET kids == {w \in PointerFiles : ptr[w] # RootPtr /\ ptr[w].parent = parent}
    IN {w \in kids : \A x \in kids : x <= w}
\* adj_mat[parent]: the children named by the pointer records on disk
AdjMat(parent) == {w \in PointerFiles : ptr[w] # RootPtr /\ ptr[w].parent = parent}

RECURSIVE SeqOfSet(_)
SeqOfSet(S) ==
    IF S = {} THEN <<>>
    ELSE LET m == CHOOSE x \in S : \A y \in S : x <= y
         IN <<m>> \o SeqOfSet(S \ {m})

\* the breadth-first loop of _traverse_tree (lines 113-128): todo is the deque,
\* order the ids in the order their entries were created, edges the
\* (parent, child) pairs appended to a "next" list.
RECURSIVE TreeBfs(_, _, _)
TreeBfs(todo, order, edges) ==
    IF todo = <<>> THEN [order |-> order, edges |-> edges]
    ELSE LET curr == Head(todo)
             kids == SeqOfSet(AdjMat(curr))
         IN TreeBfs(Tail(todo) \o kids, order \o kids,
                    edges \cup {<<curr, kids[i]>> : i \in 1..Len(kids)})

TreeErr(msg) == [ok |-> FALSE, err |-> msg, tree |-> NoTree]

\* _traverse_tree: the root test, the scan of the pointer records (raises on
\* a record that is neither "root" nor an edge), then the traversal.
TraverseTree(root) ==
    IF ~HasPointer(root) THEN TreeErr("FileNotFoundError")
    ELSE IF GetNodeType(root) # NODE_TYPE_ROOT THEN TreeErr("is not a root node")
    ELSE IF \E w \in PointerFiles : ptr[w] # RootPtr /\ ~PtrMatch(ptr[w])
         THEN TreeErr("Invalid workspace_pointer.txt")
    ELSE LET b == TreeBfs(<<root>>, <<root>>, {})
         IN [ok |-> TRUE, err |-> "none",
             tree |-> [root |-> root, order |-> b.order, edges |-> b.edges]]

\* all_entries: the keys of the flat id -> node map
AllEntries(tree) == {tree.order[i] : i \in 1..Len(tree.order)}

\* _scan_dirs_w_ts and the sort by st_ctime_ns: the workspace directories in
\* ascending order of their change time
RECURSIVE SortByCtime(_)
SortByCtime(S) ==
    IF S = {} THEN <<>>
    ELSE LET m == CHOOSE x \in S : \A y \in S :
                      ctime[x] < ctime[y] \/ (ctime[x] = ctime[y] /\ x <= y)
         IN <<m>> \o SortByCtime(S \ {m})

\* _traverse_mcp_calls_by_time
TraverseByTime(entries) ==
    LET sorted == SortByCtime(dirs)
    IN SelectSeq(sorted, LAMBDA w : w \in entries)

\* cmd_create_dataset / cmd_run_inference / cmd_rpart / cmd_glmnet up to the
\* point where run_command has started the child process (p.start()).
StartCmd(c, tool, parent, args) ==
    /\ Free(c)
    /\ LET cl == [tool |-> tool, parent |-> parent, args |-> TargetArgs(tool, args),
                  ws |-> NullId, sealedAtIssue |-> FinalExists]
       IN
       IF PreCheckFails(tool, args)
       THEN /\ Finish(c, cl, Return(NullId,
                         Failure("sql must be a valid duckdb select statement.")))
            /\ UNCHANGED <<nextId, cpc, q, res>>
       ELSE IF CreateREnvRaises(FALSE)
       THEN /\ Finish(c, cl, Raise(SealedMsg))
            /\ UNCHANGED <<nextId, cpc, q, res>>
       ELSE /\ nextId' = nextId + 1
            /\ IF LimitsExceeded(tool, args)
               THEN /\ Finish(c, [cl EXCEPT !.ws = nextId + 1],
                              Return(nextId + 1, Failure(LimitMessage(args))))
                    /\ UNCHANGED <<cpc, q, res>>
               ELSE /\ call' = [call EXCEPT ![c] = [cl EXCEPT !.ws = nextId + 1]]
                    /\ pc' = [pc EXCEPT ![c] = "wait"]
                    /\ cpc' = [cpc EXCEPT ![c] = "start"]
                    /\ q' = [q EXCEPT ![c] = <<>>]
                    /\ res' = [res EXCEPT ![c] = NoRes]
                    /\ resp' = NoResp
                    /\ UNCHANGED handed
    /\ UNCHANGED <<diskVars, sqlLog, store, final, plots>>

\* tool_call.json of directory w after audit.log_tool_call(tool_name,
\* target_args, r) of the child of worker c: the open raises when the directory
\* does not exist, and nothing is written.
LogToolCall(c, r) ==
    LET w == AuditDir(c)
    IN IF w \in dirs'
       THEN [audit EXCEPT ![w] = CreateLogEntry(call[c].parent, call[c].ws,
                                                call[c].tool, call[c].args, r)]
       ELSE audit

\* lines 165-188 and 200-207: an exception before `with r_env` (the rpy2
\* imports start the embedded R).  The directory has not been created, so
\* the audit write of the except block raises as well.
ChildImportFail(c) ==
    /\ cpc[c] = "start"
    /\ res' = [res EXCEPT ![c] = Failure("engine setup error")]
    /\ dirs' = dirs
    /\ audit' = LogToolCall(c, Failure("engine setup error"))
    /\ cpc' = [cpc EXCEPT ![c] = "put"]
    /\ resp' = NoResp
    /\ UNCHANGED <<nextId, ptr, files, ctime, birth, sqlLog, store, final, plots, pc, call,
                   q, handed>>

\* `with r_env:` the whole of __enter__ in the child: directory, pointer,
\* engine packages and connection, fork copy, setwd.  With the parent
\* directory absent __enter__ raises FileNotFoundError, and the except block
\* (lines 200-207) writes the failure into tool_call.json.
ChildEnter(c) ==
    /\ cpc[c] = "start"
    /\ LET w == call[c].ws
           last == call[c].parent
       IN /\ MakeDir(w, last)
          /\ IF last = NullId
             THEN /\ cpc' = [cpc EXCEPT ![c] = "body"]
                  /\ UNCHANGED <<res, files, audit>>
             ELSE IF ParentFound(last)
             THEN /\ files' = Fork(w, last)
                  /\ audit' = ForkAudit(w, last)
                  /\ cpc' = [cpc EXCEPT ![c] = "body"]
                  /\ UNCHANGED res
             ELSE /\ res' = [res EXCEPT ![c] = Failure("invalid last session guid")]
                  /\ audit' = LogToolCall(c, Failure("invalid last session guid"))
                  /\ cpc' = [cpc EXCEPT ![c] = "put"]
                  /\ UNCHANGED files
    /\ resp' = NoResp
    /\ UNCHANGED <<nextId, sqlLog, store, final, plots, pc, call, q, handed>>

\* lines 190-207: the command body returns (res is the success dictionary) or
\* raises (res is the failure dictionary); then the audit entry is written.
\* A body that returns has written the artifacts of its tool and the other
\* files S into its working directory.
ChildBodyW(c, ok, S) ==
    /\ cpc[c] = "body"
    /\ LET w == call[c].ws
           t == call[c].tool
           r == IF ok THEN Success ELSE Failure("command error")
       IN /\ res' = [res EXCEPT ![c] = r]
          /\ files' = IF ok
                      THEN [files EXCEPT ![w] = [BodyFiles(w, t) EXCEPT !.small = @ \cup S]]
                      ELSE files
          /\ dirs' = dirs
          /\ audit' = LogToolCall(c, r)
          /\ ctime' = Touch(w)
    /\ cpc' = [cpc EXCEPT ![c] = "put"]
    /\ resp' = NoResp
    /\ UNCHANGED <<nextId, ptr, birth, sqlLog, store, final, plots, pc, call, q, handed>>
\* The commands of the tool handlers, which leave no other files.
ChildBody(c, ok) == ChildBodyW(c, ok, {})

\* a finally block that puts the result and the stand-in
ChildPutTwice(c) ==
    /\ cpc[c] = "put"
    /\ q' = [q EXCEPT ![c] = Append(Append(@, res[c]), Failure("unknown error"))]
    /\ cpc' = [cpc EXCEPT ![c] = "exit"]
    /\ resp' = NoResp
    /\ UNCHANGED <<nextId, diskVars, sqlLog, store, final, plots, pc, call, res, handed>>
\* finally: q.put(res), with the "unknown error" stand-in when res is None
ChildPut(c) ==
    /\ cpc[c] = "put"
    /\ q' = [q EXCEPT ![c] =
             Append(@, IF res[c] = NoRes THEN Failure("unknown error") ELSE res[c])]
    /\ cpc' = [cpc EXCEPT ![c] = "exit"]
    /\ resp' = NoResp
    /\ UNCHANGED <<nextId, diskVars, sqlLog, store, final, plots, pc, call, res, handed>>

\* finally: _endr(0); sys.exit(0)
ChildExit(c) ==
    /\ cpc[c] = "exit"
    /\ cpc' = [cpc EXCEPT ![c] = "exited"]
    /\ resp' = NoResp
    /\ UNCHANGED <<nextId, diskVars, sqlLog, store, final, plots, pc, call, res, q, handed>>

\* The child process dies while the command runs (the embedded R aborts, the
\* process is killed) and has not put a message.
ChildCrash(c) ==
    /\ cpc[c] = "body"
    /\ cpc' = [cpc EXCEPT ![c] = "crashed"]
    /\ resp' = NoResp
    /\ UNCHANGED <<nextId, diskVars, sqlLog, store, final, plots, pc, call, res, q, handed>>

\* ---------------------------------------------- AgentRCommands.run_command
\* res = q.get(): blocks until the queue holds a message
ParentRecv(c) ==
    /\ pc[c] = "wait"
    /\ q[c] # <<>>
    /\ res' = [res EXCEPT ![c] = Head(q[c])]
    /\ q' = [q EXCEPT ![c] = Tail(@)]
    /\ pc' = [pc EXCEPT ![c] = "join"]
    /\ resp' = NoResp
    /\ UNCHANGED <<nextId, diskVars, sqlLog, store, final, plots, call, cpc, handed>>

\* a handler that returns without p.join()
ParentJoinNoWait(c) ==
    /\ pc[c] = "join"
    /\ Finish(c, call[c], Return(call[c].ws, res[c]))
    /\ cpc' = [cpc EXCEPT ![c] = "none"]
    /\ res' = [res EXCEPT ![c] = NoRes]
    /\ UNCHANGED <<nextId, diskVars, sqlLog, store, final, plots, q>>
\* p.join(), then the handler returns {"workspace_id": ..., "result": res}
ParentJoin(c) ==
    /\ pc[c] = "join"
    /\ cpc[c] \in {"exited", "crashed"}
    /\ Finish(c, call[c], Return(call[c].ws, res[c]))
    /\ cpc' = [cpc EXCEPT ![c] = "none"]
    /\ res' = [res EXCEPT ![c] = NoRes]
    /\ UNCHANGED <<nextId, diskVars, sqlLog, store, final, plots, q>>

\* ------------------------------------------------------------------ cmd_init
\* a cmd_init that opens its workspace through run_command
CmdInitSpawns(c) ==
    /\ Free(c)
    /\ ~CreateREnvRaises(TRUE)
    /\ nextId' = nextId + 1
    /\ call' = [call EXCEPT ![c] = [tool |-> "cmd_init", parent |-> NullId,
                                    args |-> NoArgs, ws |-> nextId + 1,
                                    sealedAtIssue |-> FinalExists]]
    /\ pc' = [pc EXCEPT ![c] = "wait"]
    /\ cpc' = [cpc EXCEPT ![c] = "start"]
    /\ q' = [q EXCEPT ![c] = <<>>]
    /\ res' = [res EXCEPT ![c] = NoRes]
    /\ resp' = NoResp
    /\ UNCHANGED <<diskVars, sqlLog, store, final, plots, handed>>
\* create_REnv(None, no_cmd=True), then `with renv:`: __enter__ with no_cmd set
\* makes the directory and the pointer record and returns (line 76).
CmdInit(c) ==
    /\ Free(c)
    /\ LET cl == [tool |-> "cmd_init", parent |-> NullId, args |-> NoArgs,
                  ws |-> NullId, sealedAtIssue |-> FinalExists]
       IN IF CreateREnvRaises(TRUE)
          THEN /\ Finish(c, cl, Raise(SealedMsg))
               /\ UNCHANGED <<nextId, dirs, ptr, ctime, birth>>
          ELSE /\ nextId' = nextId + 1
               /\ MakeDir(nextId + 1, NullId)
               /\ Finish(c, [cl EXCEPT !.ws = nextId + 1],
                         Return(nextId + 1,
                                [success |-> TRUE, message |-> "workspace created"]))
    /\ UNCHANGED <<audit, files, sqlLog, store, final, plots, cpc, res, q>>

\* -------------------------------------------------------------- cmd_finalize
\* create_REnv(workspace_id, no_cmd=True), then `with renv:` (directory and
\* pointer record of the no-op workspace; no fork, no look at the parent).
StartFinalize(c, leaf) ==
    /\ Free(c)
    /\ LET cl == [tool |-> "cmd_finalize", parent |-> leaf, args |-> NoArgs,
                  ws |-> NullId, sealedAtIssue |-> FinalExists]
       IN IF CreateREnvRaises(TRUE)
          THEN /\ Finish(c, cl, Raise(SealedMsg))
               /\ UNCHANGED <<nextId, dirs, ptr, ctime, birth>>
          ELSE /\ nextId' = nextId + 1
               /\ MakeDir(nextId + 1, leaf)
               /\ call' = [call EXCEPT ![c] = [cl EXCEPT !.ws = nextId + 1]]
               /\ pc' = [pc EXCEPT ![c] = "fin_write"]
               /\ resp' = NoResp
               /\ UNCHANGED handed
    /\ UNCHANGED <<audit, files, sqlLog, store, final, plots, cpc, res, q>>

\* traverse_sql_audit_log: os.scandir(work_dir / "sql_run") raises when the
\* directory does not exist
SqlLogOk == sqlLog.dir

\* traverse_model_audit_log(final_workspace_id): None is replaced by the
\* workspace_id of an existing final.json (open raises when there is none)
ModelLogLeaf(leaf) == IF leaf = NullId THEN final.workspace_id ELSE leaf
ModelLogOk(leaf) ==
    /\ (leaf = NullId => FinalExists)
    /\ TraverseBranch(ModelLogLeaf(leaf)).ok
    /\ TraverseTree(TraverseBranch(ModelLogLeaf(leaf)).chain[1].workspace_id).ok

\* finalize_data (lines 288-294)
FinalizeData(ws, leaf) ==
    LET branch == TraverseBranch(ModelLogLeaf(leaf))
        tree == TraverseTree(branch.chain[1].workspace_id).tree
    IN [exists |-> TRUE,
        workspace_id |-> ws,
        sql_log |-> sqlLog.entries,
        final_model_log |-> branch.chain,
        all_model_logs |-> tree,
        all_model_logs_by_time |-> TraverseByTime(AllEntries(tree))]

\* lines 299-311: every *.png under the work directory is copied to
\* plots/<id>.png, <id> taken from the name of the image's directory split at
\* "_"; an image already in plots/ has no "_" in its directory name and the
\* unpacking raises.
PlotsOk == plots.imgs = {}
\* the *.png files in the directory of workspace w
Images(w) ==
    (IF files[w].png THEN {ToolPng} ELSE {}) \cup {f \in files[w].small : f.ext = "png"}
\* The contents of plots/ that the loop can leave: every image is copied to
\* plots/<id>.png of its directory, in the order in which rglob yields them, so
\* of the images of one directory the file holds the one that came last.
CollectPlots ==
    LET I == {w \in dirs : Images(w) # {}}
    IN {[dir |-> TRUE, imgs |-> I, file |-> f] :
           f \in {g \in [I -> SmallNames \cup {ToolPng}] : \A w \in I : g[w] \in Images(w)}}

\* lines 278-318: the audit reader's views, the write of final.json, the
\* collection of the plots.  An exception of a reader ends the call before
\* anything is written.
FinalizeWrite(c) ==
    /\ pc[c] = "fin_write"
    /\ IF ~SqlLogOk
       THEN /\ Finish(c, call[c], Raise("FileNotFoundError: sql_run"))
            /\ UNCHANGED <<final, plots>>
       ELSE IF ~ModelLogOk(call[c].parent)
       THEN /\ Finish(c, call[c], Raise("audit reader error"))
            /\ UNCHANGED <<final, plots>>
       ELSE /\ final' = FinalizeData(call[c].ws, call[c].parent)
            /\ IF PlotsOk
               THEN /\ plots' \in CollectPlots
                    /\ Finish(c, call[c], Return(call[c].ws,
                              [success |-> TRUE, message |-> "workspace finalized"]))
               ELSE /\ plots' = plots
                    /\ Finish(c, call[c], Raise("ValueError"))
    /\ UNCHANGED <<nextId, diskVars, sqlLog, store, cpc, res, q>>

\* ------------------------------------------------------------------- sql_run
\* A statement that does not match DUCKDB_SELECT_STMT is rejected before
\* anything is written; otherwise sql_run/ is created if needed and one
\* query_<uuid>.json is written, whether the query succeeds or not.
SqlRun(matches) ==
    /\ Len(sqlLog.entries) < MaxSqlLog
    /\ sqlLog' = IF matches
                 THEN [dir |-> TRUE, entries |-> Append(sqlLog.entries, "query")]
                 ELSE sqlLog
    /\ resp' = NoResp
    /\ UNCHANGED <<nextId, diskVars, store, final, plots, pc, call, cpc, res, q,
                   handed>>

\* ------------------------------------------------------ the session store
\* AppSession.__setitem__(key, value): the body is
\* self._set_data(self, key, value), a call of the bound method with one
\* argument too many, so it raises TypeError before any statement of
\* _set_data runs and the table is left as it was.
SetItem(s, key, value) == [raised |-> TRUE, err |-> "TypeError", store |-> s]

\* AssumptionsAgent._set_active_agent_name(agent_name) with a valid name, the
\* first statement of an agent run (prompt_async): AGENT_NAME is set, the work
\* directory is made if needed, MCP_WORK_DIR is set; an exception of a
\* statement ends the call.
SetActiveAgentName(a) ==
    /\ \A c \in Slots : pc[c] = "idle"
    /\ LET r1 == SetItem(store, "AGENT_NAME", a)
           r2 == SetItem(r1.store, "MCP_WORK_DIR", AgentWorkDir(a))
           err == IF r1.raised THEN r1.err ELSE IF r2.raised THEN r2.err ELSE "none"
       IN /\ store' = IF r1.raised THEN r1.store ELSE r2.store
          /\ resp' = [kind |-> IF err = "none" THEN "return" ELSE "raise",
                      err |-> err, workspace_id |-> NullId, result |-> NoRes,
                      tool |-> "_set_active_agent_name"]
    /\ UNCHANGED <<nextId, diskVars, sqlLog, final, plots, pc, call, cpc, res, q,
                   handed>>

\* ---------------------------------------------------------------------- Next
\* At most MaxWs ids are drawn.
Next ==
    \/ \E c \in Workers, t \in IssuedTools, p \in CmdParents :
            \E a \in ArgsOf(t) : StartCmd(c, t, p, a) /\ nextId' <= MaxWs
    \/ \E c \in Workers : CmdInit(c) /\ nextId' <= MaxWs
    \/ \E c \in Workers, p \in CallerIds : StartFinalize(c, p) /\ nextId' <= MaxWs
    \/ \E c \in Workers : FinalizeWrite(c)
    \/ \E c \in Workers : ChildImportFail(c)
    \/ \E c \in Workers : ChildEnter(c)
    \/ \E c \in Workers, ok \in BOOLEAN : ChildBody(c, ok)
    \/ \E c \in Workers : ChildPut(c)
    \/ \E c \in Workers : ChildExit(c)
    \/ \E c \in Workers : ChildCrash(c)
    \/ \E c \in Workers : ParentRecv(c)
    \/ \E c \in Workers : ParentJoin(c)
    \/ \E m \in BOOLEAN : SqlRun(m)

Spec == Init /\ [][Next]_vars

\* ------------------------------------------------- the backtracking scenario
\* One caller, one call at a time: cmd_init (root, id 1); a command against
\* the root (W1, id 2), which succeeds; a command against W1 (W2, id 3), whose
\* body raises; a command against W1 again (W3, id 4), which succeeds.  The
\* tools of the three commands are any of the issued ones, with arguments
\* that pass the handlers' checks; sql_run calls may come in between.
ValidArgs(tool) ==
    CHOOSE a \in ArgsOf(tool) : ~PreCheckFails(tool, a) /\ ~LimitsExceeded(tool, a)

ScenarioParent == IF nextId = 1 THEN 1 ELSE 2

ScenarioNext ==
    \/ nextId = 0 /\ CmdInit(1)
    \/ \E t \in IssuedTools :
          /\ nextId \in 1..3
          /\ ScenarioParent \in handed
          /\ StartCmd(1, t, ScenarioParent, ValidArgs(t))
          /\ nextId' <= ScenarioWs
    \/ ChildEnter(1)
    \/ ChildBody(1, call[1].ws # 3)
    \/ ChildPut(1)
    \/ ChildExit(1)
    \/ ParentRecv(1)
    \/ ParentJoin(1)
    \/ SqlRun(TRUE)

ScenarioSpec == Init /\ [][ScenarioNext]_vars

\* ----------------------------------------------------------- the fork scenario
\* One caller, one call at a time: cmd_init (root, id 1); a command against
\* the root (id 2); a command against that workspace (P, id 3); two commands
\* against P (ids 4 and 5).  Tools and outcomes of the four commands are free,
\* so P's large artifact is absent, a file of its own, or a link to its
\* parent's.
ForkParent == IF nextId <= 2 THEN nextId ELSE 3

ForkNext ==
    \/ nextId = 0 /\ CmdInit(1)
    \/ \E t \in IssuedTools :
          /\ nextId \in 1..4
          /\ ForkParent \in handed
          /\ StartCmd(1, t, ForkParent, ValidArgs(t))
          /\ nextId' <= ForkWs
    \/ ChildEnter(1)
    \/ \E ok \in BOOLEAN : ChildBody(1, ok)
    \/ ChildPut(1)
    \/ ChildExit(1)
    \/ ParentRecv(1)
    \/ ParentJoin(1)

ForkSpec == Init /\ [][ForkNext]_vars

\* ------------------------------------------------------- the artifact scenario
\* One caller, one call at a time: cmd_init (root, id 1), a command against
\* the root (N, id 2) and a command against N (id 3); after N, a cmd_finalize
\* of a workspace handed back.  A body that returns may have left any of the
\* other files in its working directory.
ArtifactNext ==
    \/ nextId = 0 /\ CmdInit(1)
    \/ \E t \in IssuedTools :
          /\ nextId \in 1..2
          /\ nextId \in handed
          /\ StartCmd(1, t, nextId, ValidArgs(t))
          /\ nextId' <= ArtifactWs
    \/ ChildEnter(1)
    \/ \E ok \in BOOLEAN, S \in SUBSET SmallNames : ChildBodyW(1, ok, S)
    \/ ChildPut(1)
    \/ ChildExit(1)
    \/ ParentRecv(1)
    \/ ParentJoin(1)
    \/ \E p \in handed :
          /\ nextId \in 2..3
          /\ StartFinalize(1, p)
          /\ nextId' <= ArtifactWs
    \/ FinalizeWrite(1)
    \/ SqlRun(TRUE)

ArtifactSpec == Init /\ [][ArtifactNext]_vars

\* ---------------------------------------------------------- the agent scenario
\* The backtracking scenario, with agent runs that set their name and work
\* directory between the calls.
AgentNext ==
    \/ \E a \in Agents : SetActiveAgentName(a)
    \/ ScenarioNext

AgentSpec == Init /\ [][AgentNext]_vars

\* ----------------------------------------------------------- the seal scenario
\* cmd_init (root, id 1), then cmd_rpart commands against workspaces handed
\* back, each of which succeeds and leaves its plot, or against a malformed
\* id, sql_run calls, and cmd_finalize calls of workspaces handed back; the
\* calls of the workers overlap freely.
SealNext ==
    \/ nextId = 0 /\ CmdInit(1)
    \/ \E c \in Workers, p \in handed \cup {MalformedId} :
          /\ nextId > 0
          /\ StartCmd(c, "cmd_rpart", p, ValidArgs("cmd_rpart"))
          /\ nextId' <= SealWs
    \/ \E c \in Workers : ChildEnter(c)
    \/ \E c \in Workers : ChildBody(c, TRUE)
    \/ \E c \in Workers : ChildPut(c)
    \/ \E c \in Workers : ChildExit(c)
    \/ \E c \in Workers : ParentRecv(c)
    \/ \E c \in Workers : ParentJoin(c)
    \/ \E c \in Workers, p \in handed : StartFinalize(c, p) /\ nextId' <= SealWs
    \/ \E c \in Workers : FinalizeWrite(c)
    \/ SqlRun(TRUE)

SealSpec == Init /\ [][SealNext]_vars

\* ----------------------------------------------------------- the load scenario
\* cmd_init (root, id 1), then LoadCalls callers issue cmd_run_inference
\* against the root without waiting for one another; every command succeeds.
\* Of the interleavings of the children the scenario takes those in which
\* the child that was started first runs first.
Oldest(c) ==
    /\ cpc[c] \notin {"none", "exited"}
    /\ \A d \in Slots : cpc[d] \notin {"none", "exited"} => call[c].ws <= call[d].ws

LoadNext ==
    \/ nextId = 0 /\ CmdInit(1)
    \/ \E c \in Slots :
          /\ 1 \in handed
          /\ StartCmd(c, "cmd_run_inference", 1, ValidArgs("cmd_run_inference"))
          /\ nextId' <= LoadCalls + 1
    \/ \E c \in Slots : Oldest(c) /\ ChildEnter(c)
    \/ \E c \in Slots : Oldest(c) /\ ChildBody(c, TRUE)
    \/ \E c \in Slots : Oldest(c) /\ ChildPut(c)
    \/ \E c \in Slots : Oldest(c) /\ ChildExit(c)
    \/ \E c \in Slots : ParentRecv(c)
    \/ \E c \in Slots : ParentJoin(c)

LoadSpec == Init /\ [][LoadNext]_vars

\* ------------------------------------------- the reader on given disk data
\* The audit reader is a function of the files it finds.  Here it is run on
\* storage areas that hold one chain of n workspaces (1 the root, w forked
\* from w - 1, each command's audit entry in place), as the code writes it
\* or with one defect: a pointer record that is neither "root" nor an edge,
\* a missing tool_call.json, both, or a first workspace that points to the
\* last one (a cycle).  n is short, or around MAX_DEPTH.
ChainLens == (1..ReaderIds) \cup {MAX_DEPTH - 1, MAX_DEPTH, MAX_DEPTH + 1}

\* a workspace_pointer.txt whose content PTR_PATTERN does not match
BadPtr == [root |-> FALSE, parent |-> NullId, child |-> NullId]

ChainPtr(n) == [w \in 1..n |-> PointerDesc(w - 1, w)]
ChainAudit(n) ==
    [w \in 1..n |-> IF w = 1 THEN NoAudit
                    ELSE CreateLogEntry(w - 1, w, "cmd_run_inference", NoArgs, Success)]
\* the workspaces of a chain of n that the defects are put on and the reads
\* start from
Marks(n) == {k \in 1..n : k <= ReaderIds \/ k = n}

Disks(n) ==
    {[ptr |-> ChainPtr(n), audit |-> ChainAudit(n)]}
    \cup {[ptr |-> [ChainPtr(n) EXCEPT ![k] = BadPtr], audit |-> ChainAudit(n)] :
             k \in Marks(n)}
    \cup {[ptr |-> ChainPtr(n), audit |-> [ChainAudit(n) EXCEPT ![k] = NoAudit]] :
             k \in Marks(n)}
    \cup {[ptr |-> [ChainPtr(n) EXCEPT ![k] = BadPtr],
           audit |-> [ChainAudit(n) EXCEPT ![k] = NoAudit]] : k \in Marks(n)}
    \cup {[ptr |-> [ChainPtr(n) EXCEPT ![1] = PointerDesc(n, 1)],
           audit |-> [ChainAudit(n) EXCEPT ![1] =
                        CreateLogEntry(n, 1, "cmd_run_inference", NoArgs, Success)]]}

ReaderInit ==
    /\ \E n \in ChainLens : \E d \in Disks(n) :
          /\ dirs = 1..n
          /\ ptr = d.ptr
          /\ audit = d.audit
    /\ nextId = 0
    /\ files = [w \in Ids |-> NoFiles]
    /\ ctime = [w \in Ids |-> 0]
    /\ birth = [w \in Ids |-> 0]
    /\ sqlLog = NoSqlDir
    /\ store = DEFAULT_SESSION_SETTINGS
    /\ final = NoFinal
    /\ plots = NoPlots
    /\ pc = [c \in Slots |-> "idle"]
    /\ call = [c \in Slots |-> NoCall]
    /\ cpc = [c \in Slots |-> "none"]
    /\ res = [c \in Slots |-> NoRes]
    /\ q = [c \in Slots |-> <<>>]
    /\ resp = NoResp
    /\ handed = {}

\* _traverse_branch(leaf) is called: its outcome is the response
ReadBranch(leaf) ==
    /\ LET b == TraverseBranch(leaf)
       IN resp' = [kind |-> IF b.ok THEN "return" ELSE "raise", err |-> b.err,
                   workspace_id |-> leaf, result |-> NoRes,
                   tool |-> "_traverse_branch"]
    /\ UNCHANGED <<nextId, diskVars, sqlLog, store, final, plots, pc, call, cpc, res, q,
                   handed>>

\* _traverse_tree(root) is called (on the short chains)
ReadTree(root) ==
    /\ Cardinality(dirs) <= ReaderIds
    /\ LET t == TraverseTree(root)
       IN resp' = [kind |-> IF t.ok THEN "return" ELSE "raise", err |-> t.err,
                   workspace_id |-> root, result |-> NoRes,
                   tool |-> "_traverse_tree"]
    /\ UNCHANGED <<nextId, diskVars, sqlLog, store, final, plots, pc, call, cpc, res, q,
                   handed>>

ReaderNext ==
    \/ \E leaf \in Marks(Cardinality(dirs)) : ReadBranch(leaf)
    \/ \E root \in Marks(Cardinality(dirs)) : ReadTree(root)

ReaderSpec == ReaderInit /\ [][ReaderNext]_vars

\* ====================================================================
\* Properties
\* ====================================================================
\* A handler was entered in this step: it ended at once (the workers'
\* positions are unchanged and there is a response), or it took a worker.
IssueStep ==
    \/ (pc' = pc /\ resp' # NoResp)
    \/ \E c \in Slots : pc[c] = "idle" /\ pc'[c] # "idle"

PreCheckFailure == Failure("sql must be a valid duckdb select statement.")

\* C1: once final.json is present, every call that is issued and opens a
\* workspace (cmd_init, the command tools, cmd_finalize, with any workspace id)
\* fails with the "cmd_finalize() has already been called" error instead of
\* running: no worker takes the call, no id is drawn, and the response of a
\* call that got as far as create_REnv is that error.
C1_SealedCallsFail ==
    [][FinalExists =>
         /\ \A c \in Slots : pc[c] = "idle" => pc'[c] = "idle"
         /\ nextId' = nextId
         /\ (pc' = pc /\ resp' # NoResp /\ resp'.result # PreCheckFailure)
               => (resp'.kind = "raise" /\ resp'.err = SealedMsg)]_vars

C1_Witness ==
    /\ FinalExists
    /\ resp.kind = "raise" /\ resp.err = SealedMsg
    /\ resp.tool = "cmd_run_inference"

DirUnchanged(w) ==
    /\ (w \in dirs <=> w \in dirs')
    /\ ptr'[w] = ptr[w]
    /\ audit'[w] = audit[w]
    /\ files'[w] = files[w]

C4_DeadChildIsReported ==
    \A c \in Slots :
        (pc[c] = "wait" /\ cpc[c] = "crashed" /\ q[c] = <<>>)
            => ENABLED (ParentRecv(c) \/ ParentJoin(c))

C6_OneAuditEntryPerCommand ==
    [][/\ \A c \in Slots :
            (pc[c] = "join" /\ pc'[c] = "idle")
               => audit'[call[c].ws] =
                    CreateLogEntry(call[c].parent, call[c].ws, call[c].tool,
                                   call[c].args, res[c])
       /\ (resp'.kind = "return" /\ resp'.tool \in {"cmd_init", "cmd_finalize"})
               => audit'[resp'.workspace_id] = NoAudit]_vars

\* The roots on disk, the nodes of the tree read from a root, the edges the
\* pointer records state.
Roots == {w \in dirs : ptr[w] = RootPtr}
TreeNodes(r) == AllEntries(TraverseTree(r).tree)
PointerEdges == {<<ptr[w].parent, w>> : w \in {x \in dirs : ptr[x] # RootPtr}}

\* C7: after any sequence of cmd_init, command and cmd_finalize calls
\* (failed commands and commands against missing parents included), with no
\* call in progress,
\* TraverseTree from the roots of the storage area yields trees that hold
\* every workspace created exactly once (none missing, none twice) and whose
\* edges are exactly the pointer records on disk.
C7_TreeIsComplete ==
    (\A c \in Slots : pc[c] = "idle") =>
    /\ \A r \in Roots :
          /\ TraverseTree(r).ok
          /\ Len(TraverseTree(r).tree.order) = Cardinality(TreeNodes(r))
    /\ \A r1 \in Roots, r2 \in Roots : r1 # r2 => TreeNodes(r1) \cap TreeNodes(r2) = {}
    /\ UNION {TreeNodes(r) : r \in Roots} = dirs
    /\ UNION {TraverseTree(r).tree.edges : r \in Roots} = PointerEdges

\* C8: for every workspace d, TraverseBranch(d) returns a chain that starts
\* at a root, ends at d, names no workspace twice, and in which every
\* consecutive pair is a parent -> child pointer record; so every ancestor w
\* of d (d included) is visited exactly once.
C8_BranchIsRootFirstChain ==
    \A d \in dirs :
        LET b == TraverseBranch(d)
            n == Len(b.chain)
        IN /\ b.ok
           /\ n >= 1
           /\ b.chain[1].type = NODE_TYPE_ROOT
           /\ b.chain[n].workspace_id = d
           /\ \A i \in 1..n, j \in 1..n :
                 i # j => b.chain[i].workspace_id # b.chain[j].workspace_id
           /\ \A i \in 1..(n - 1) :
                 ptr[b.chain[i + 1].workspace_id] =
                     [root |-> FALSE, parent |-> b.chain[i].workspace_id,
                      child |-> b.chain[i + 1].workspace_id]

\* The backtracking scenario has run to its end.
ScenarioDone == nextId = 4 /\ pc[1] = "idle" /\ 4 \in handed

\* C9: after the backtracking scenario (root; W1 against root succeeds; W2
\* against W1 fails; W3 against W1 succeeds) TraverseTree(root) shows the
\* root with the one child W1 and W1 with exactly the children W2 and W3;
\* W2's directory is on disk and its node carries the failure audit entry.
C9_Backtracking ==
    ScenarioDone =>
        LET t == TraverseTree(1)
        IN /\ t.ok
           /\ t.tree.root = 1
           /\ t.tree.edges = {<<1, 2>>, <<2, 3>>, <<2, 4>>}
           /\ AllEntries(t.tree) = {1, 2, 3, 4}
           /\ Len(t.tree.order) = 4
           /\ 3 \in dirs
           /\ audit[3] # NoAudit
           /\ GetNodeLog(3) = audit[3]
           /\ audit[3].last = 2 /\ audit[3].this = 3
           /\ audit[3].result = Failure("command error")
           /\ audit[2].result.success /\ audit[4].result.success

C9_Witness ==
    /\ ScenarioDone
    /\ dirs = {1, 2, 3, 4}
    /\ ~GetNodeLog(3).result.success
    /\ GetNodeLog(4).result.success

\* C10: TraverseByTime lists every workspace of a lineage exactly once and in
\* the order in which the workspaces were created, also when the commands
\* overlapped.
C10_ByTimeIsCreationOrder ==
    \A r \in Roots :
        TraverseTree(r).ok =>
            LET t == TraverseByTime(TreeNodes(r))
            IN /\ {t[i] : i \in 1..Len(t)} = TreeNodes(r)
               /\ Len(t) = Cardinality(TreeNodes(r))
               /\ \A i \in 1..Len(t), j \in 1..Len(t) :
                     i < j => birth[t[i]] < birth[t[j]]

\* C11: every workspace directory holds one pointer record from the step that
\* creates the directory on, and no later step (fork copy, command body,
\* any other operation) rewrites or removes it; the record is "root" iff
\* the workspace was opened with an empty parent id, else the edge from the
\* parent id the call named to the new id.
C11_PointerWrittenOnce ==
    [][/\ \A w \in dirs : w \in dirs' /\ ptr'[w] = ptr[w]
       /\ \A w \in dirs' \ dirs :
             /\ ptr'[w] # NoPtr
             /\ \A c \in Slots :
                   (call[c].ws = w \/ call'[c].ws = w) =>
                      LET p == IF call[c].ws = w THEN call[c].parent
                               ELSE call'[c].parent
                      IN /\ (p = NullId <=> ptr'[w] = RootPtr)
                         /\ (p # NullId =>
                               ptr'[w] = [root |-> FALSE, parent |-> p, child |-> w])
             /\ (resp'.tool = "cmd_init" /\ resp'.workspace_id = w)
                   => ptr'[w] = RootPtr
       /\ \A w \in Ids \ dirs' : ptr'[w] = NoPtr]_vars

\* a root, and a workspace forked from it whose command has run and returned
C11_Witness ==
    \E r \in dirs, w \in handed \cap dirs :
        /\ ptr[r] = RootPtr
        /\ ptr[w] = [root |-> FALSE, parent |-> r, child |-> w]
        /\ audit[w] # NoAudit /\ audit[w].result.success

\* C12: a command whose workspace_id names no directory, so that the fork
\* finds no parent, does not come back as a returned dictionary (a failure
\* result with a new workspace id): the handler ends with an exception.
C12_ParentNotFoundAborts ==
    [][\A c \in Slots :
         (pc[c] = "join" /\ pc'[c] = "idle"
             /\ call[c].parent # NullId /\ call[c].parent \notin dirs
             /\ call[c].ws \in dirs)
            => (resp'.kind = "raise" /\ resp'.workspace_id = NullId)]_vars

\* the edge record of a workspace forked from p
ForkedFrom(w, p) == ptr[w] = [root |-> FALSE, parent |-> p, child |-> w]

\* C13: the fork of a new workspace from parent P leaves P's artifacts as
\* they are and writes no bytes of a large artifact: when P has none the new
\* workspace has none, otherwise its large artifact is a link that resolves
\* to the same underlying file as P's (also when P's is a link to an
\* ancestor's file) and as the unmodified links of every workspace forked
\* from P before.
C13_SiblingsShareArtifacts ==
    [][\A c \in Slots :
         (cpc[c] = "start" /\ cpc'[c] = "body" /\ call[c].parent # NullId) =>
            LET P == call[c].parent
                w == call[c].ws
            IN /\ \A x \in Ids \ {w} : files'[x] = files[x]
               /\ files[P].large.kind = "none" => files'[w].large = NoLarge
               /\ files[P].large.kind # "none" =>
                     /\ files'[w].large.kind = "link"
                     /\ ResolveIn(files, P) # NullId
                     /\ ResolveIn(files', w) = ResolveIn(files, P)
                     /\ \A u \in dirs \ {w} :
                           (ForkedFrom(u, P) /\ files[u].large.kind = "link")
                              => ResolveIn(files', u) = ResolveIn(files', w)]_vars

\* two workspaces forked from a P whose artifact is itself a link: all three
\* resolve to the file of P's parent
C13_Witness ==
    \E P \in dirs, u \in dirs, w \in dirs :
        /\ u # w /\ ForkedFrom(u, P) /\ ForkedFrom(w, P)
        /\ files[P].large.kind = "link"
        /\ files[u].large = [kind |-> "link", ref |-> P]
        /\ files[w].large = [kind |-> "link", ref |-> P]
        /\ ResolveIn(files, u) = ResolveIn(files, w)
        /\ ResolveIn(files, u) = ResolveIn(files, P)
        /\ ResolveIn(files, P) \notin {NullId, P}

\* C14: a cmd_rpart call with more than 5 x_vars or a max_depth above 4 ends
\* in the handler with a failure (the returned failure result that names the
\* limit; on a sealed storage area the sealed error of create_REnv, which
\* comes first) and starts no command process; no cmd_rpart call that holds
\* a worker, and no cmd_rpart audit entry, has more than 5 x_vars or a depth
\* above 4.
C14_RpartLimitsEnforced ==
    [][/\ \A c \in Slots, p \in CmdParents, a \in ArgsOf("cmd_rpart") :
            ((a.nx > MaxXVars \/ a.depth > MaxTreeDepth)
                /\ StartCmd(c, "cmd_rpart", p, a)) =>
               /\ pc' = pc /\ cpc' = cpc /\ q' = q
               /\ resp'.tool = "cmd_rpart"
               /\ IF FinalExists
                  THEN resp'.kind = "raise" /\ resp'.err = SealedMsg
                  ELSE /\ resp'.kind = "return"
                       /\ resp'.result = Failure(LimitMessage(a))
                       /\ ~resp'.result.success
       /\ \A c \in Slots :
            call'[c].tool = "cmd_rpart" =>
               call'[c].args.nx <= MaxXVars /\ call'[c].args.depth <= MaxTreeDepth
       /\ \A w \in Ids :
            audit'[w].tool = "cmd_rpart" =>
               audit'[w].args.nx <= MaxXVars /\ audit'[w].args.depth <= MaxTreeDepth]_vars

\* a cmd_rpart call within the limits has run, and one with six x_vars has
\* just been refused
C14_Witness ==
    /\ resp.tool = "cmd_rpart" /\ resp.kind = "return"
    /\ resp.result = Failure("more than 5 x_vars passed, maximum of 5")
    /\ \A c \in Slots : cpc[c] = "none"
    /\ \E w \in dirs : audit[w].tool = "cmd_rpart" /\ audit[w].result.success

\* C15: cmd_init on an unsealed storage area returns an id that no existing
\* directory, no earlier response and no call in flight carries, creates
\* exactly the directory of that id with the pointer record "root", writes
\* no audit entry and no artifact, and starts no command process.
C15_InitCreatesRoot ==
    [][(resp'.tool = "cmd_init" /\ ~FinalExists) =>
          LET w == resp'.workspace_id
          IN /\ resp'.kind = "return" /\ resp'.result.success
             /\ w \in Ids \ (dirs \cup handed)
             /\ \A c \in Slots : call[c].ws # w
             /\ dirs' = dirs \cup {w}
             /\ ptr' = [ptr EXCEPT ![w] = RootPtr]
             /\ audit' = audit /\ audit[w] = NoAudit
             /\ files' = files /\ files[w] = NoFiles
             /\ pc' = pc /\ cpc' = cpc /\ q' = q]_vars

\* cmd_init has returned a second root while a command process is running
C15_Witness ==
    /\ resp.tool = "cmd_init" /\ resp.kind = "return"
    /\ ptr[resp.workspace_id] = RootPtr
    /\ audit[resp.workspace_id] = NoAudit
    /\ \E r \in dirs \ {resp.workspace_id} : ptr[r] = RootPtr
    /\ \E c \in Slots : cpc[c] = "body"

\* C16: every workspace id that a response has handed back to the caller
\* names a workspace that exists and has exited: its directory and its
\* pointer record are on disk and no call is still working on it.
C16_HandedIdsAreWorkspaces ==
    \A w \in handed :
        /\ w \in dirs
        /\ ptr[w] # NoPtr
        /\ \A c \in Slots : call[c].ws # w

\* C17: the workspace id field of the finalization record is the chosen
\* leaf: the last node of the ancestor chain stored in the same record.
C17_RecordNamesLeaf ==
    FinalExists =>
        /\ final.final_model_log # <<>>
        /\ final.workspace_id =
              final.final_model_log[Len(final.final_model_log)].workspace_id

\* C18: cmd_finalize of a leaf that exists, on an unsealed storage area
\* whose pointer and audit data the reader can follow from the leaf to the
\* root and over the whole tree, returns successfully and has written the
\* finalization record, whatever calls came before (with or without a
\* sql_run call).
C18_FinalizeSucceeds ==
    [][\A c \in Slots :
         (/\ pc[c] = "fin_write" /\ pc'[c] = "idle"
          /\ ~FinalExists
          /\ call[c].parent \in dirs
          /\ TraverseBranch(call[c].parent).ok
          /\ TraverseTree(TraverseBranch(call[c].parent).chain[1].workspace_id).ok)
            => /\ resp'.kind = "return" /\ resp'.result.success
               /\ final'.exists]_vars

\* C19: once the finalization record is written no workspace directory is
\* created any more, also not by a call whose seal check came before the
\* write.
C19_NoWorkspaceAfterSeal ==
    [][FinalExists => dirs' = dirs]_vars

\* C20: the finalization record is written once: no step writes final.json
\* when it exists already, also not the second of two cmd_finalize calls
\* that overlap.
C20_FinalWrittenOnce ==
    [][\A c \in Slots :
         (pc[c] = "fin_write" /\ pc'[c] = "idle" /\ FinalExists)
            => /\ final' = final
               /\ resp'.kind = "raise" /\ resp'.err = SealedMsg]_vars

\* The number of messages the child of worker c has put on its queue so far:
\* those still in the queue and the one the handler has taken out.
Sent(c) == Len(q[c]) + (IF pc[c] = "join" THEN 1 ELSE 0)

\* C21: on every path of run_target through its try block (the command
\* returns, the command raises, the engine set-up or the fork raises, the
\* audit write raises) the child puts exactly one message on the queue: none
\* before its finally block, one from then on, and a message is put only by
\* the step of the finally block.
C21_OneMessagePerChild ==
    [][\A c \in Slots :
         /\ cpc'[c] \in {"start", "body", "put"} => Sent(c)' = 0
         /\ cpc'[c] \in {"exit", "exited"} => Sent(c)' = 1
         /\ Len(q'[c]) > Len(q[c]) => (cpc[c] = "put" /\ cpc'[c] = "exit")]_vars

\* the child failed before the workspace directory was made, its audit write
\* raised in the except block, and it has exited with its one message queued
C21_Witness ==
    \E c \in Slots :
        /\ cpc[c] = "exited" /\ pc[c] = "wait"
        /\ call[c].ws \notin dirs
        /\ q[c] = <<Failure("engine setup error")>>

\* C22: when the handler takes a result message for workspace W out of the
\* queue, W's tool_call.json has been written and the result stored in it is
\* the result in the message.
C22_AuditBeforeReport ==
    [][\A c \in Slots :
         (pc[c] = "wait" /\ pc'[c] = "join") =>
            /\ audit[call[c].ws] # NoAudit
            /\ audit[call[c].ws].this = call[c].ws
            /\ audit[call[c].ws].result = res'[c]]_vars

\* C23: run_command returns only after the child it started has terminated:
\* the handler of a command ends only from behind p.join() with the child
\* exited, the child exits after its put whether the command succeeded or
\* failed, and a worker that is idle has no child.
C23_ReturnAfterChildExit ==
    [][\A c \in Slots :
         /\ (pc[c] \in {"wait", "join"} /\ pc'[c] = "idle") =>
               (pc[c] = "join" /\ cpc[c] \in {"exited", "crashed"})
         /\ (pc[c] = "wait" /\ pc'[c] = "join") => cpc[c] \in {"exit", "exited"}
         /\ cpc'[c] = "exited" => cpc[c] \in {"exit", "exited"}
         /\ pc'[c] \in {"idle", "fin_write"} => cpc'[c] = "none"]_vars

\* a failed and a successful command have both returned and no child is left
C23_Witness ==
    /\ \A c \in Slots : pc[c] = "idle" /\ cpc[c] = "none"
    /\ resp.kind = "return" /\ resp.tool \in CmdTools /\ resp.result.success
    /\ \E w \in handed \cap dirs : audit[w] # NoAudit /\ ~audit[w].result.success

\* C24: a command call that reaches run_command starts exactly one child
\* process, a new one, which serves this call only; the directory of a
\* command's workspace is made and written by the steps of that child and by
\* nothing else; cmd_init and cmd_finalize start no child and write their
\* no-op workspace in the handler.
C24_OneFreshChildPerCommand ==
    [][/\ \A c \in Slots :
            /\ (pc[c] = "idle" /\ pc'[c] = "wait") =>
                  (cpc[c] = "none" /\ cpc'[c] = "start")
            /\ (cpc[c] = "none" /\ cpc'[c] # "none") =>
                  /\ pc[c] = "idle" /\ pc'[c] = "wait" /\ cpc'[c] = "start"
                  /\ call'[c].tool \in CmdTools
                  /\ call'[c].ws \notin dirs
                  /\ \A d \in Slots \ {c} : call[d].ws # call'[c].ws
            /\ (cpc[c] # "none" /\ cpc'[c] # "none") => call'[c] = call[c]
            /\ (cpc[c] # "none" /\ cpc'[c] # cpc[c]) => pc'[c] = pc[c] \/ cpc'[c] = "none"
            /\ pc'[c] = "fin_write" => cpc'[c] = "none"
       /\ \A w \in Ids :
            ~DirUnchanged(w) =>
               \/ \E c \in Slots : /\ call[c].ws = w /\ call[c].tool \in CmdTools
                                     /\ cpc[c] \in {"start", "body"}
                                     /\ cpc'[c] # cpc[c]
               \/ /\ cpc' = cpc /\ w \notin dirs
                  /\ \/ resp'.tool = "cmd_init" /\ resp'.workspace_id = w
                     \/ \E c \in Slots : /\ pc[c] = "idle" /\ pc'[c] = "fin_write"
                                           /\ call'[c].ws = w
       /\ resp'.tool \in {"cmd_init", "cmd_finalize"} => cpc' = cpc]_vars

\* two command children run at the same time, each on its own workspace,
\* next to a root that cmd_init made
C24_Witness ==
    /\ \E c \in Slots, d \in Slots :
          /\ c # d /\ call[c].ws # call[d].ws
          /\ cpc[c] = "body" /\ call[c].ws \in dirs
          /\ cpc[d] = "body" /\ call[d].ws \in dirs
    /\ \E r \in handed \cap dirs : ptr[r] = RootPtr /\ audit[r] = NoAudit

\* The command child processes that are alive: started and not terminated.
AliveChildren == {c \in Slots : cpc[c] \in {"start", "body", "put", "exit"}}

\* C25: at no time are more than MAX_SERVER_WORKERS command child processes
\* alive.
C25_ChildrenBounded ==
    Cardinality(AliveChildren) <= MAX_SERVER_WORKERS

\* C26: a workspace that is no root, whose command is over (its child died
\* in the body) and which holds no tool_call.json makes the reader raise:
\* TraverseBranch from it, TraverseTree from its root and the reads of
\* cmd_finalize do not go through.
C26_MissingAuditIsFatal ==
    \A c \in Slots :
        LET w == call[c].ws
            P == call[c].parent
        IN (/\ cpc[c] = "crashed" /\ w \in dirs /\ audit[w] = NoAudit
            /\ P \in dirs /\ ptr[P] = RootPtr)
              => /\ ~TraverseBranch(w).ok
                 /\ ~TraverseTree(P).ok
                 /\ ~ModelLogOk(w)

\* a pointer record that is neither "root" nor a well-formed edge
Unparsable(w) == w \in dirs /\ ptr[w] # RootPtr /\ ~PtrMatch(ptr[w])

\* C27: a traversal that meets an unparsable pointer record raises:
\* _traverse_branch started at a workspace with such a record, and
\* _traverse_tree when any workspace of the storage area has one.
C27_BadPointerIsFatal ==
    [][/\ (resp'.tool = "_traverse_branch" /\ Unparsable(resp'.workspace_id))
            => resp'.kind = "raise"
       /\ (resp'.tool = "_traverse_tree" /\ \E w \in dirs : Unparsable(w))
            => resp'.kind = "raise"]_vars

\* The pointer and audit data are as the code writes them: every workspace
\* is a root or has an edge record to itself from a workspace on disk, and
\* an audit entry that names the same parent.
WellFormed ==
    \A w \in dirs :
        \/ ptr[w] = RootPtr
        \/ /\ PtrMatch(ptr[w]) /\ ptr[w].child = w /\ ptr[w].parent \in dirs
           /\ audit[w] # NoAudit /\ audit[w].last = ptr[w].parent

\* The workspace reached from w by following parents k times (a root is
\* its own end), and whether a root is among the first k workspaces visited
\* from leaf.
ParentOf(w) == IF ptr[w] = RootPtr THEN w ELSE ptr[w].parent
RECURSIVE Ancestor(_, _)
Ancestor(w, k) ==
    IF w \notin dirs \/ k = 0 THEN w
    ELSE IF k = 1 THEN ParentOf(w)
    ELSE Ancestor(Ancestor(w, k \div 2), k - (k \div 2))
RootWithin(leaf, k) ==
    LET a == Ancestor(leaf, k - 1) IN a \in dirs /\ ptr[a] = RootPtr

\* C28: _traverse_branch ends on every input; a chain it returns starts at
\* a root and has fewer than MAX_DEPTH + 1 nodes; and on well-formed
\* records on which following the parents from the leaf meets no root
\* within MAX_DEPTH workspaces (a cycle, an over-long chain) it raises the
\* max-depth error.
C28_BranchWalkIsBounded ==
    [][resp'.tool = "_traverse_branch" =>
          LET leaf == resp'.workspace_id
              b == TraverseBranch(leaf)
          IN /\ resp'.kind \in {"return", "raise"}
             /\ resp'.kind = "return" =>
                   /\ b.ok /\ b.chain # <<>>
                   /\ b.chain[1].type = NODE_TYPE_ROOT
                   /\ b.chain[Len(b.chain)].workspace_id = leaf
                   /\ Len(b.chain) <= MAX_DEPTH
             /\ (WellFormed /\ ~RootWithin(leaf, MAX_DEPTH)) =>
                   /\ resp'.kind = "raise"
                   /\ resp'.err = "Max depth reached while scanning for root"]_vars

\* the walk was run on a cycle of workspaces and raised the max-depth error
C28_Witness ==
    /\ resp.tool = "_traverse_branch" /\ resp.kind = "raise"
    /\ resp.err = "Max depth reached while scanning for root"
    /\ WellFormed
    /\ \A w \in dirs : ptr[w] # RootPtr
    /\ Cardinality(dirs) >= 2

\* C29: on well-formed records on which the root is among the first
\* MAX_DEPTH workspaces visited from the leaf (a chain of exactly MAX_DEPTH
\* workspaces included) _traverse_branch returns the chain and does not
\* raise.
C29_DepthErrorOnlyBeyondBound ==
    [][(/\ resp'.tool = "_traverse_branch"
        /\ WellFormed
        /\ RootWithin(resp'.workspace_id, MAX_DEPTH))
          => resp'.kind = "return"]_vars

\* C30: no command is forked from a workspace whose command body raised:
\* when the child of a command has made the fork copy from its parent P,
\* the audit entry of P does not record the failure of P's command body.
C30_NoForkFromFailed ==
    [][\A c \in Slots :
         (cpc[c] = "start" /\ cpc'[c] = "body" /\ call[c].parent \in dirs) =>
            audit[call[c].parent].result # Failure("command error")]_vars

\* C31: a workspace forked from N starts with the filesystem state left by
\* N: N's large artifact (*.parquet / *.rds) as a link, every other artifact
\* file of N as a copy, and none of N's bookkeeping files (pointer record,
\* audit entry, result images); no other file of N is missing.
C31_ForkByFileClass ==
    [][\A c \in Slots :
         (cpc[c] = "start" /\ cpc'[c] = "body" /\ call[c].parent # NullId) =>
            LET N == call[c].parent
                w == call[c].ws
            IN /\ files'[w].large = IF files[N].large.kind = "none" THEN NoLarge
                                     ELSE [kind |-> "link", ref |-> N]
               /\ files'[w].small = {f \in files[N].small : f.ext # "png"}
               /\ ~files'[w].png
               /\ audit'[w] = NoAudit
               /\ ptr'[w] = PointerDesc(N, w)]_vars

\* C32: every workspace's pointer record and audit entry describe the
\* workspace itself: a pointer record that is an edge names the workspace as
\* its child, an audit entry has the workspace's id as workspace_id, and a
\* workspace whose command has not written its entry yet has none (the fork
\* leaves the parent's pointer record and audit entry behind).
C32_RecordsDescribeSelf ==
    /\ \A w \in dirs :
          /\ ptr[w] # RootPtr => ptr[w].child = w
          /\ audit[w] # NoAudit => audit[w].this = w
    /\ \A c \in Slots : cpc[c] = "body" => audit[call[c].ws] = NoAudit

\* a workspace forked from a parent that has an audit entry, with an entry
\* of its own
C32_Witness ==
    \E w \in dirs, P \in dirs :
        /\ ForkedFrom(w, P)
        /\ audit[P] # NoAudit /\ audit[P].this = P
        /\ audit[w] # NoAudit /\ audit[w].this = w

\* The root of the lineage of workspace w: the end of its chain of pointer
\* records.
LineageRoot(w) == Ancestor(w, Cardinality(dirs))

\* C33: the seal is kept per lineage root: when the finalization record was
\* written for a leaf under root R1, a command issued against a workspace
\* whose lineage root is another root R2 of the same storage area is still
\* accepted (create_REnv does not raise the sealed error).
C33_SealPerLineageRoot ==
    [][\A c \in Slots, t \in IssuedTools, p \in handed : \A a \in ArgsOf(t) :
         (/\ FinalExists
          /\ final.final_model_log # <<>>
          /\ LineageRoot(p) \in Roots \cap handed
          /\ LineageRoot(p) # final.final_model_log[1].workspace_id
          /\ ~PreCheckFails(t, a)
          /\ StartCmd(c, t, p, a))
            => ~(resp'.kind = "raise" /\ resp'.err = SealedMsg)]_vars

\* C34: a command whose child terminated without sending a result gets a
\* best-effort audit entry from the parent: when the child is dead, has put
\* no message and the workspace holds no tool_call.json, the handler of the
\* call still has a step to take (the one that writes the entry); it is not
\* left with the workspace without an entry for good.
C34_ParentAuditsCrashedChild ==
    \A c \in Slots :
        (/\ pc[c] = "wait" /\ cpc[c] = "crashed" /\ q[c] = <<>>
         /\ call[c].ws \in dirs)
            => \/ audit[call[c].ws] # NoAudit
               \/ ENABLED (ParentRecv(c) \/ ParentJoin(c))

\* C35: after a successful cmd_finalize every image of every workspace is
\* in plots/ under the workspace's id: for every workspace W and every *.png
\* file in W's directory, plots/<W>.png exists and is a copy of that image.
C35_AllPlotsCollected ==
    [][\A c \in Slots :
         (/\ pc[c] = "fin_write" /\ pc'[c] = "idle"
          /\ resp'.kind = "return" /\ resp'.result.success)
            => \A w \in dirs : \A img \in Images(w) :
                  /\ plots'.dir
                  /\ w \in plots'.imgs
                  /\ plots'.file[w] = img]_vars

\* C36: a call whose workspace id names no directory leaves the storage
\* area as it was: once the call is over there is no workspace directory
\* whose pointer record names a parent that does not exist.
C36_MissingParentLeavesNoTrace ==
    \A w \in dirs :
        ((\A c \in Slots : call[c].ws # w) /\ ptr[w] # RootPtr)
            => ptr[w].parent \in dirs

\* C37: cmd_finalize seals exactly when it reports success: a call that
\* ends with an error, at whatever step, has not written final.json (the
\* record is as it was before the step, absent if it was absent), and a call
\* that returns success has written it.
C37_SealIffSuccess ==
    [][\A c \in Slots :
         (pc[c] = "fin_write" /\ pc'[c] = "idle") =>
            /\ resp'.kind = "raise" => final' = final
            /\ (resp'.kind = "return" /\ resp'.result.success) => final'.exists]_vars

\* C38: the two views of the lineage agree.  The parent in a workspace's
\* audit entry is the parent in its pointer record; and whenever
\* TraverseBranch returns a chain for a workspace, TraverseTree of the
\* chain's first workspace returns a tree with that root in which the chain
\* is the path from the root to the workspace (it ends at the workspace and
\* every consecutive pair is an edge of the tree).
C38_ViewsAgree ==
    \A w \in dirs :
        /\ (audit[w] # NoAudit /\ ptr[w] # RootPtr) => audit[w].last = ptr[w].parent
        /\ LET b == TraverseBranch(w)
               n == Len(b.chain)
           IN b.ok =>
                LET t == TraverseTree(b.chain[1].workspace_id)
                IN /\ t.ok
                   /\ t.tree.root = b.chain[1].workspace_id
                   /\ b.chain[n].workspace_id = w
                   /\ \A i \in 1..n : b.chain[i].workspace_id \in AllEntries(t.tree)
                   /\ \A i \in 1..(n - 1) :
                         <<b.chain[i].workspace_id, b.chain[i + 1].workspace_id>>
                            \in t.tree.edges

\* C39: the storage root is supplied per agent run: when a run has set its
\* name and work directory, the call has gone through and the directory
\* that the calls which follow read from the session store is the run's own
\* work directory.
C39_RootPerAgentRun ==
    [][\A a \in Agents :
         SetActiveAgentName(a)
            => /\ resp'.kind = "return"
               /\ store'.MCP_WORK_DIR = AgentWorkDir(a)]_vars
====
